---------------------------- MODULE Spec2Model ----------------------------
(***************************************************************************)
(* A model of decrypt_pageprops_a.py: the tolerant base64 decoder, the     *)
(* blob splitter, the decryptor, the pageProps.a locator and main's        *)
(* pipeline.  Strings are sequences of code points, byte strings are       *)
(* sequences of 0..255.                                                    *)
(***************************************************************************)
EXTENDS Integers, Sequences, FiniteSets, TLC

VARIABLES fn, arg, ret,
          pc, argv, file, data, blob, dec, outfile, stdout, exit

fvars == <<fn, arg, ret>>
mvars == <<pc, argv, file, data, blob, dec, outfile, stdout, exit>>
vars == <<fn, arg, ret, pc, argv, file, data, blob, dec, outfile, stdout, exit>>

-----------------------------------------------------------------------------
(* Characters used by the source, as code points.                          *)
chEq == 61
chDash == 45
chUnder == 95
chPlus == 43
chSlash == 47
chDQuote == 34
chSQuote == 39

(* Characters the source does not name, used to build inputs.              *)
InputChar == [A |-> 65, k |-> 107, bang |-> 33, space |-> 32]

(* str * n *)
Rep(c, n) == [i \in 1 .. n |-> c]

(* The concatenation of the sequences parts[lo], ..., parts[hi].           *)
RECURSIVE Flatten(_, _, _)
Flatten(parts, lo, hi) ==
    IF lo > hi THEN <<>>
    ELSE IF lo = hi THEN parts[lo]
    ELSE Flatten(parts, lo, (lo + hi) \div 2) \o Flatten(parts, (lo + hi) \div 2 + 1, hi)

(* The characters str.strip() removes: Python's whitespace.                *)
Whitespace == {9, 10, 11, 12, 13, 28, 29, 30, 31, 32, 133, 160, 5760, 8232,
               8233, 8239, 8287, 12288} \cup (8192 .. 8202)

(* str.lstrip(chars) / str.rstrip(chars) / str.strip(chars): every leading *)
(* and every trailing character that is in chars is removed.               *)
RECURSIVE LStrip(_, _)
LStrip(s, chars) ==
    IF s # <<>> /\ Head(s) \in chars THEN LStrip(Tail(s), chars) ELSE s

RECURSIVE RStrip(_, _)
RStrip(s, chars) ==
    IF s # <<>> /\ s[Len(s)] \in chars
    THEN RStrip(SubSeq(s, 1, Len(s) - 1), chars)
    ELSE s

Strip(s, chars) == RStrip(LStrip(s, chars), chars)

(* str.replace(old, new) for single characters.                            *)
Replace(s, old, new) == [i \in 1 .. Len(s) |-> IF s[i] = old THEN new ELSE s[i]]

-----------------------------------------------------------------------------
(* binascii's table_a2b_base64: the 6-bit value of a character of the      *)
(* standard alphabet, 64 for every other character.                        *)
NotB64 == 64

B64Val(c) ==
    IF c >= 65 /\ c <= 90 THEN c - 65
    ELSE IF c >= 97 /\ c <= 122 THEN c - 71
    ELSE IF c >= 48 /\ c <= 57 THEN c + 4
    ELSE IF c = chPlus THEN 62
    ELSE IF c = chSlash THEN 63
    ELSE NotB64

(* binascii.a2b_base64 in its default (non-strict) mode, one character at  *)
(* a time.  st = [q: quad_pos, left: leftchar, pads, out, done].           *)
A2bStep(st, c) ==
    IF st.done THEN st
    ELSE IF c = chEq
    THEN IF st.q >= 2
         THEN IF st.q + st.pads + 1 >= 4
              THEN [st EXCEPT !.pads = st.pads + 1, !.done = TRUE]
              ELSE [st EXCEPT !.pads = st.pads + 1]
         ELSE st
    ELSE IF B64Val(c) >= NotB64 THEN st
    ELSE LET v == B64Val(c) IN
         CASE st.q = 0 -> [st EXCEPT !.pads = 0, !.q = 1, !.left = v]
           [] st.q = 1 -> [st EXCEPT !.pads = 0, !.q = 2,
                                     !.out = Append(st.out, st.left * 4 + v \div 16),
                                     !.left = v % 16]
           [] st.q = 2 -> [st EXCEPT !.pads = 0, !.q = 3,
                                     !.out = Append(st.out, st.left * 16 + v \div 4),
                                     !.left = v % 4]
           [] OTHER    -> [st EXCEPT !.pads = 0, !.q = 0,
                                     !.out = Append(st.out, st.left * 64 + v),
                                     !.left = 0]

RECURSIVE A2bRun(_, _, _)
A2bRun(st, s, i) ==
    IF i > Len(s) THEN st ELSE A2bRun(A2bStep(st, s[i]), s, i + 1)

Ok(bytes) == [ok |-> TRUE, bytes |-> bytes, err |-> "none"]
Raise(e) == [ok |-> FALSE, bytes |-> <<>>, err |-> e]

(* base64.b64decode(s) for a str: ASCII only, then a2b_base64.             *)
b64decode(s) ==
    IF \E i \in 1 .. Len(s) : s[i] > 127 THEN Raise("ValueError: non-ASCII")
    ELSE LET st == A2bRun([q |-> 0, left |-> 0, pads |-> 0, out |-> <<>>,
                           done |-> FALSE], s, 1) IN
         IF st.done \/ st.q = 0 THEN Ok(st.out)
         ELSE IF st.q = 1 THEN Raise("binascii.Error: data characters 1 mod 4")
         ELSE Raise("binascii.Error: Incorrect padding")

(* b64decode_loose(s)                                                      *)
b64decode_loose(s) ==
    LET s1 == Strip(s, Whitespace)
        s2 == Replace(Replace(s1, chDash, chPlus), chUnder, chSlash)
        mod == Len(s2) % 4
    IN  IF mod = 1 THEN Raise("ValueError: mod 4 == 1")
        ELSE IF mod \in {2, 3} THEN b64decode(s2 \o Rep(chEq, 4 - mod))
        ELSE b64decode(s2)

(* base64.b64encode (standard alphabet, padded): the encoder of the        *)
(* inverse construction.                                                   *)
B64Chr(v) ==
    IF v < 26 THEN v + 65
    ELSE IF v < 52 THEN v + 71
    ELSE IF v < 62 THEN v - 4
    ELSE IF v = 62 THEN chPlus ELSE chSlash

RECURSIVE b64encode(_)
b64encode(b) ==
    IF Len(b) = 0 THEN <<>>
    ELSE IF Len(b) = 1
    THEN <<B64Chr(b[1] \div 4), B64Chr((b[1] % 4) * 16), chEq, chEq>>
    ELSE IF Len(b) = 2
    THEN <<B64Chr(b[1] \div 4), B64Chr((b[1] % 4) * 16 + b[2] \div 16),
           B64Chr((b[2] % 16) * 4), chEq>>
    ELSE <<B64Chr(b[1] \div 4), B64Chr((b[1] % 4) * 16 + b[2] \div 16),
           B64Chr((b[2] % 16) * 4 + b[3] \div 64), B64Chr(b[3] % 64)>>
         \o b64encode(SubSeq(b, 4, Len(b)))

-----------------------------------------------------------------------------
(* A function-level specification holds the call in fn and arg, and in ret *)
(* nothing until the call has ended, then <<outcome>>.  The variables a    *)
(* specification does not use keep their idle values.                      *)
IdleF == fn = "idle" /\ arg = <<>> /\ ret = <<>>
IdleM == /\ pc = "idle" /\ argv = <<>> /\ file = <<>> /\ data = <<>>
         /\ blob = <<>> /\ dec = <<>> /\ outfile = <<>> /\ stdout = <<>>
         /\ exit = <<>>

(* Strings over a set of characters, up to a length.                       *)
RECURSIVE StringsUpTo(_, _)
StringsUpTo(chars, n) ==
    IF n = 0 THEN {<<>>}
    ELSE LET shorter == StringsUpTo(chars, n - 1) IN
         shorter \cup {Append(s, c) : s \in shorter, c \in chars}

-----------------------------------------------------------------------------
(* b64decode_loose applied to every short string over a small alphabet.    *)
MaxB64Len == 6
B64Chars == {InputChar.A, chEq, InputChar.bang, InputChar.space, chUnder}

InitB64 == /\ fn = "b64decode_loose"
           /\ arg \in StringsUpTo(B64Chars, MaxB64Len)
           /\ ret = <<>>
           /\ IdleM

CallB64 == /\ fn = "b64decode_loose" /\ ret = <<>>
           /\ ret' = <<b64decode_loose(arg)>>
           /\ UNCHANGED <<fn, arg>>
           /\ UNCHANGED mvars

SpecB64 == InitB64 /\ [][CallB64]_vars

(* C6: b64decode_loose raises for every input whose length without its    *)
(* trailing '=' padding is 1 modulo 4, and for an input over the alphabet  *)
(* whose padding-stripped length is 0, 2 or 3 modulo 4 it does not raise   *)
(* on account of length.                                                   *)
PadStripped(s) == RStrip(s, {chEq})
LengthError(r) == r.err \in {"ValueError: mod 4 == 1",
                             "binascii.Error: data characters 1 mod 4"}
InAlphabet(s) == \A i \in 1 .. Len(s) :
                    B64Val(s[i]) < NotB64 \/ s[i] \in {chDash, chUnder}
C6_RejectsByStrippedLength ==
    (fn = "b64decode_loose" /\ ret # <<>>) =>
        LET n == Len(PadStripped(arg)) IN
        /\ (n % 4 = 1) => ~ret[1].ok
        /\ (n % 4 # 1 /\ InAlphabet(PadStripped(arg))) => ~LengthError(ret[1])

-----------------------------------------------------------------------------
(* split_blob_guess                                                        *)
Margin == 10
DelimTail == 5
MinDelimKey == 18
MaxDelimKey == 30
KeyLens == <<21, 22, 20, 23>>

Pair(key_str, enc_b64) == [key_str |-> key_str, enc_b64 |-> enc_b64]

(* blob.strip().strip('"').strip("'")                                      *)
Trim(b) == Strip(Strip(Strip(b, Whitespace), {chDQuote}), {chSQuote})

(* SuffixCandidate without the safety margin of its guard.                 *)
SuffixCandidateNoMargin(b, key_len) ==
    LET L == Len(b) IN
    IF L <= key_len THEN <<>>
    ELSE <<[key_str |-> SubSeq(b, L - key_len + 1, L),
            enc_b64 |-> SubSeq(b, 1, L - key_len)]>>

(* The candidate of one key_len of the loop, or none.                      *)
SuffixCandidate(b, key_len) ==
    LET L == Len(b) IN
    IF L <= key_len + Margin THEN <<>>
    ELSE <<Pair(SubSeq(b, L - key_len + 1, L), SubSeq(b, 1, L - key_len))>>

RECURSIVE SuffixCandidates(_, _)
SuffixCandidates(b, i) ==
    IF i > Len(KeyLens) THEN <<>>
    ELSE SuffixCandidate(b, KeyLens[i]) \o SuffixCandidates(b, i + 1)

(* str.rfind(c): the 0-based index of the last c, or -1.                   *)
RFind(b, c) ==
    IF \E i \in 1 .. Len(b) : b[i] = c
    THEN (CHOOSE i \in 1 .. Len(b) :
            b[i] = c /\ \A j \in (i + 1) .. Len(b) : b[j] # c) - 1
    ELSE -1

(* candidates.append(x) in the place of candidates.insert(0, x).           *)
InsertBack(candidates, x) == Append(candidates, x)

(* candidates.insert(0, x)                                                 *)
InsertFront(candidates, x) == <<x>> \o candidates

(* The list candidates as the validation loop receives it.                 *)
Candidates(b) ==
    LET L == Len(b)
        suffix == SuffixCandidates(b, 1)
        last_eq == RFind(b, chEq)
        possible_key == SubSeq(b, last_eq + 2, L)
        possible_enc == SubSeq(b, 1, last_eq + 1)
    IN  IF last_eq # -1 /\ last_eq < L - DelimTail
           /\ MinDelimKey <= Len(possible_key) /\ Len(possible_key) <= MaxDelimKey
        THEN InsertFront(suffix, Pair(possible_key, possible_enc))
        ELSE suffix

(* key_str[:8]                                                             *)
Prefix8(s) == SubSeq(s, 1, IF Len(s) < 8 THEN Len(s) ELSE 8)

(* The validation loop from candidate i on, errors being those collected.  *)
RECURSIVE Validate(_, _, _)
Validate(candidates, i, errors) ==
    IF i > Len(candidates)
    THEN [ok |-> FALSE, key_str |-> <<>>, enc_b64 |-> <<>>,
          err |-> "ValueError: Could not split blob", attempts |-> errors]
    ELSE LET c == candidates[i]
             d == b64decode_loose(c.enc_b64)
         IN  IF d.ok
             THEN [ok |-> TRUE, key_str |-> c.key_str, enc_b64 |-> c.enc_b64,
                   err |-> "none", attempts |-> errors]
             ELSE Validate(candidates, i + 1,
                           Append(errors, <<Prefix8(c.key_str), Len(c.enc_b64), d.err>>))

split_blob_guess(b) == Validate(Candidates(Trim(b)), 1, <<>>)

-----------------------------------------------------------------------------
(* split_blob_guess applied to blobs: a run of 'A' of every length up to   *)
(* MaxBlobLen, one of its characters possibly '=' or '!', between leading  *)
(* and trailing quotes and spaces.                                         *)
MaxBlobLen == 36

Bodies == {Rep(InputChar.A, n) : n \in 0 .. MaxBlobLen}
          \cup UNION {{[Rep(InputChar.A, n) EXCEPT ![p] = c] :
                          p \in 1 .. n, c \in {chEq, InputChar.bang}} :
                       n \in 1 .. MaxBlobLen}

Leading == {<<>>, <<chDQuote>>, <<chSQuote>>, <<InputChar.space, chDQuote>>,
            <<chDQuote, chDQuote>>, <<chSQuote, chDQuote>>}
Trailing == {<<>>, <<chDQuote>>, <<chSQuote>>, <<chDQuote, InputChar.space>>,
             <<chDQuote, chDQuote>>, <<chDQuote, chSQuote>>}

SplitInputs == {l \o b \o t : l \in Leading, b \in Bodies, t \in Trailing}

InitSplit == /\ fn = "split_blob_guess"
             /\ arg \in SplitInputs
             /\ ret = <<>>
             /\ IdleM

(* The call's outcome, with its locals blob (trimmed) and candidates.      *)
CallSplit == /\ fn = "split_blob_guess" /\ ret = <<>>
             /\ ret' = <<[out |-> split_blob_guess(arg), blob |-> Trim(arg),
                          candidates |-> Candidates(Trim(arg))]>>
             /\ UNCHANGED <<fn, arg>>
             /\ UNCHANGED mvars

SpecSplit == InitSplit /\ [][CallSplit]_vars

Decodes(c) == b64decode_loose(c.enc_b64).ok
SplitReturned == fn = "split_blob_guess" /\ ret # <<>>

(* The candidates as the claims describe them, by rank: 0 is the last-'='  *)
(* delimiter candidate, 1..4 are the suffix candidates for 21, 22, 20, 23. *)
ClaimKeyLen(r) == CASE r = 1 -> 21 [] r = 2 -> 22 [] r = 3 -> 20 [] OTHER -> 23
LastEq(b) == CHOOSE i \in 1 .. Len(b) : b[i] = chEq /\ \A j \in (i + 1) .. Len(b) : b[j] # chEq
ClaimExists(b, r) ==
    IF r = 0
    THEN /\ \E i \in 1 .. Len(b) : b[i] = chEq
         /\ Len(b) - LastEq(b) > 5
         /\ Len(b) - LastEq(b) >= 18 /\ Len(b) - LastEq(b) <= 30
    ELSE Len(b) > ClaimKeyLen(r) + 10
ClaimCandidate(b, r) ==
    IF r = 0
    THEN [key_str |-> [i \in 1 .. (Len(b) - LastEq(b)) |-> b[LastEq(b) + i]],
          enc_b64 |-> [i \in 1 .. LastEq(b) |-> b[i]]]
    ELSE [key_str |-> [i \in 1 .. ClaimKeyLen(r) |-> b[Len(b) - ClaimKeyLen(r) + i]],
          enc_b64 |-> [i \in 1 .. (Len(b) - ClaimKeyLen(r)) |-> b[i]]]

C7_EveryCandidateHasMargin ==
    SplitReturned =>
        \A i \in 1 .. Len(ret[1].candidates) :
            Len(ret[1].blob) > Len(ret[1].candidates[i].key_str) + 10

(* C7 as amended: every candidate splits the trimmed blob in two; a        *)
(* candidate either leaves more than 10 characters of encoded_ciphertext,  *)
(* or it is the delimiter candidate, first in the list, whose key_material *)
(* has 18 to 30 characters, none of them '=', and whose encoded_ciphertext *)
(* is not empty and ends with '='.                                         *)
C7_MarginOrDelimiter ==
    SplitReturned =>
        \A i \in 1 .. Len(ret[1].candidates) :
            LET c == ret[1].candidates[i]
                L == Len(ret[1].blob)
            IN  /\ c.enc_b64 \o c.key_str = ret[1].blob
                /\ \/ L > Len(c.key_str) + 10
                   \/ /\ i = 1
                      /\ Len(c.key_str) >= 18 /\ Len(c.key_str) <= 30
                      /\ \A j \in 1 .. Len(c.key_str) : c.key_str[j] # chEq
                      /\ Len(c.enc_b64) >= 1
                      /\ c.enc_b64[Len(c.enc_b64)] = chEq

(* A delimiter candidate that leaves 10 or fewer characters of             *)
(* encoded_ciphertext is validated and returned.                           *)
C7_Witness ==
    /\ SplitReturned
    /\ ret[1].out.ok
    /\ Len(ret[1].out.enc_b64) <= 10
    /\ ret[1].out.enc_b64[Len(ret[1].out.enc_b64)] = chEq

(* C8: the blob that is split is the input without its surrounding         *)
(* whitespace and without one layer of matching quotes: one quote is       *)
(* removed from each end only when the same quote stands at both ends.     *)
OneQuoteLayer(s) ==
    IF Len(s) >= 2 /\ s[1] = s[Len(s)] /\ s[1] \in {chDQuote, chSQuote}
    THEN [i \in 1 .. (Len(s) - 2) |-> s[i + 1]]
    ELSE s
C8_TrimsOneMatchingLayer ==
    SplitReturned => ret[1].blob = OneQuoteLayer(Strip(arg, Whitespace))

-----------------------------------------------------------------------------
(* JSON values as json.load builds them: None, bool, int, str, list, dict. *)
(* Every value is a record of one shape; e holds a list's items (k empty)  *)
(* or a dict's entries in insertion order.                                 *)
JVal(t, s, n, e) == [t |-> t, s |-> s, n |-> n, e |-> e]
None == JVal("null", <<>>, 0, <<>>)
JBool(b) == JVal("bool", <<>>, IF b THEN 1 ELSE 0, <<>>)
JNum(n) == JVal("num", <<>>, n, <<>>)
JStr(s) == JVal("str", s, 0, <<>>)
JArr(items) == JVal("list", <<>>, 0, [i \in 1 .. Len(items) |-> [k |-> <<>>, v |-> items[i]]])
JObj(entries) == JVal("dict", <<>>, 0, entries)
Entry(k, v) == [k |-> k, v |-> v]

IsDict(x) == x.t = "dict"
IsList(x) == x.t = "list"
IsStr(x) == x.t = "str"

(* k in d, and d.get(k) / d[k]                                             *)
HasKey(d, k) == \E i \in 1 .. Len(d.e) : d.e[i].k = k
Get(d, k) ==
    IF HasKey(d, k) THEN d.e[CHOOSE i \in 1 .. Len(d.e) : d.e[i].k = k].v ELSE None

(* The keys "pageProps", "props", "a", and "x" for any other key.          *)
kPageProps == <<112, 97, 103, 101, 80, 114, 111, 112, 115>>
kProps == <<112, 114, 111, 112, 115>>
kA == <<97>>
kX == <<120>>

(* find_pageprops_a's inner rec(node), and its loops over node.values()    *)
(* and over a list's items from item i on.                                 *)
RECURSIVE rec(_), RecItems(_, _)
rec(node) ==
    IF IsDict(node)
    THEN IF /\ HasKey(node, kPageProps)
            /\ IsDict(Get(node, kPageProps))
            /\ IsStr(Get(Get(node, kPageProps), kA))
         THEN Get(Get(node, kPageProps), kA)
         ELSE RecItems(node.e, 1)
    ELSE IF IsList(node) THEN RecItems(node.e, 1)
    ELSE None
RecItems(e, i) ==
    IF i > Len(e) THEN None
    ELSE LET got == rec(e[i].v) IN
         IF got # None THEN got ELSE RecItems(e, i + 1)

(* find_pageprops_a without its direct lookup of data.props.pageProps.a.   *)
find_pageprops_a_NoProps(d) ==
    IF IsDict(d) /\ IsDict(Get(d, kPageProps)) /\ IsStr(Get(Get(d, kPageProps), kA))
    THEN Get(Get(d, kPageProps), kA)
    ELSE rec(d)

find_pageprops_a(d) ==
    IF IsDict(d) /\ IsDict(Get(d, kPageProps)) /\ IsStr(Get(Get(d, kPageProps), kA))
    THEN Get(Get(d, kPageProps), kA)
    ELSE IF /\ IsDict(d) /\ IsDict(Get(d, kProps))
            /\ IsDict(Get(Get(d, kProps), kPageProps))
            /\ IsStr(Get(Get(Get(d, kProps), kPageProps), kA))
    THEN Get(Get(Get(d, kProps), kPageProps), kA)
    ELSE rec(d)

-----------------------------------------------------------------------------
(* find_pageprops_a applied to JSON values: a leaf wrapped up to MaxDepth  *)
(* times in a one-entry dict or a one-item list, one of the wrappers       *)
(* possibly given a second entry or item, before or after the first.       *)
MaxDepth == 3

Keys == {kPageProps, kProps, kA, kX}
Leaves == {JStr(<<49>>), JStr(<<>>), JNum(7)}
SiblingValues == {JNum(7), JObj(<<Entry(kA, JStr(<<50>>))>>),
                  JObj(<<Entry(kPageProps, JObj(<<Entry(kA, JStr(<<50>>))>>))>>)}

(* A wrapper is a key (a one-entry dict under that key) or <<>> (a         *)
(* one-item list); path lists the wrappers from the leaf outwards.  The    *)
(* wrapper at level sib.level gets the second entry or item (sib.k,        *)
(* sib.v), before the first when sib.front; level 0 is no sibling, and a   *)
(* dict gets none under the key it already has.                            *)
Wrappers == Keys \cup {<<>>}

WrapOnce(w, v, sib, here) ==
    IF w = <<>>
    THEN IF here
         THEN IF sib.front THEN JArr(<<sib.v, v>>) ELSE JArr(<<v, sib.v>>)
         ELSE JArr(<<v>>)
    ELSE IF here /\ sib.k # w
         THEN IF sib.front THEN JObj(<<Entry(sib.k, sib.v), Entry(w, v)>>)
              ELSE JObj(<<Entry(w, v), Entry(sib.k, sib.v)>>)
         ELSE JObj(<<Entry(w, v)>>)

RECURSIVE Build(_, _, _, _)
Build(v, path, sib, i) ==
    IF i > Len(path) THEN v
    ELSE Build(WrapOnce(path[i], v, sib, sib.level = i), path, sib, i + 1)

Siblings == [level : 0 .. MaxDepth, k : Keys, v : SiblingValues, front : BOOLEAN]

InitLocate == /\ fn = "find_pageprops_a"
              /\ \E leaf \in Leaves, path \in StringsUpTo(Wrappers, MaxDepth),
                    sib \in Siblings :
                    /\ sib.level <= Len(path)
                    /\ arg = Build(leaf, path, sib, 1)
              /\ ret = <<>>
              /\ IdleM

CallLocate == /\ fn = "find_pageprops_a" /\ ret = <<>>
              /\ ret' = <<find_pageprops_a(arg)>>
              /\ UNCHANGED <<fn, arg>>
              /\ UNCHANGED mvars

SpecLocate == InitLocate /\ [][CallLocate]_vars

(* The strings at a pageProps.a of value v, in depth-first order: the      *)
(* node's own before those of its entries or items, these in their order.  *)
RECURSIVE AllPagePropsA(_), AllPagePropsAFrom(_, _)
AllPagePropsA(v) ==
    (IF v.t = "dict" /\ \E i \in 1 .. Len(v.e) :
           /\ v.e[i].k = kPageProps /\ v.e[i].v.t = "dict"
           /\ \E j \in 1 .. Len(v.e[i].v.e) :
                 v.e[i].v.e[j].k = kA /\ v.e[i].v.e[j].v.t = "str"
     THEN LET i == CHOOSE i \in 1 .. Len(v.e) : v.e[i].k = kPageProps
              j == CHOOSE j \in 1 .. Len(v.e[i].v.e) : v.e[i].v.e[j].k = kA
          IN  <<v.e[i].v.e[j].v>>
     ELSE <<>>)
    \o (IF v.t \in {"dict", "list"} THEN AllPagePropsAFrom(v.e, 1) ELSE <<>>)
AllPagePropsAFrom(e, i) ==
    IF i > Len(e) THEN <<>> ELSE AllPagePropsA(e[i].v) \o AllPagePropsAFrom(e, i + 1)

(* The strings at root.pageProps.a and at root.props.pageProps.a.          *)
AtPath(v, path) ==
    LET RECURSIVE Walk(_, _)
        Walk(x, i) ==
            IF i > Len(path) THEN <<x>>
            ELSE IF x.t = "dict" /\ \E n \in 1 .. Len(x.e) : x.e[n].k = path[i]
            THEN Walk(x.e[CHOOSE n \in 1 .. Len(x.e) : x.e[n].k = path[i]].v, i + 1)
            ELSE <<>>
        found == Walk(v, 1)
    IN  IF found # <<>> /\ found[1].t = "str" THEN found ELSE <<>>

(* C3: find_pageprops_a returns the string at root.pageProps.a, else the   *)
(* one at root.props.pageProps.a, else the first string at any pageProps.a *)
(* in depth-first order, and None exactly when there is no such string.    *)
C3_LocatorPriority ==
    (fn = "find_pageprops_a" /\ ret # <<>>) =>
        LET direct == AtPath(arg, <<kPageProps, kA>>)
            viaProps == AtPath(arg, <<kProps, kPageProps, kA>>)
            all == AllPagePropsA(arg)
        IN  /\ ret[1] = IF direct # <<>> THEN direct[1]
                        ELSE IF viaProps # <<>> THEN viaProps[1]
                        ELSE IF all # <<>> THEN all[1]
                        ELSE None
            /\ (ret[1] = None) <=> (all = <<>>)

(* The string at root.props.pageProps.a is returned although another       *)
(* pageProps.a comes first in depth-first order.                           *)
C3_Witness ==
    /\ fn = "find_pageprops_a" /\ ret # <<>>
    /\ AtPath(arg, <<kPageProps, kA>>) = <<>>
    /\ AtPath(arg, <<kProps, kPageProps, kA>>) = <<ret[1]>>
    /\ AllPagePropsA(arg)[1] # ret[1]

-----------------------------------------------------------------------------
(* bytes.decode("utf-8", errors="strict") and str.encode("utf-8"): the     *)
(* codec of open(..., encoding="utf-8") and of pt.decode.                  *)
Cont(b) == b >= 128 /\ b <= 191

RECURSIVE Utf8DecodeFrom(_, _, _)
Utf8DecodeFrom(b, i, acc) ==
    IF i > Len(b) THEN [ok |-> TRUE, text |-> acc]
    ELSE LET b0 == b[i]
             b1 == IF i + 1 <= Len(b) THEN b[i + 1] ELSE 0
             b2 == IF i + 2 <= Len(b) THEN b[i + 2] ELSE 0
             b3 == IF i + 3 <= Len(b) THEN b[i + 3] ELSE 0
         IN  IF b0 < 128 THEN Utf8DecodeFrom(b, i + 1, Append(acc, b0))
             ELSE IF b0 >= 194 /\ b0 <= 223 /\ Cont(b1)
             THEN Utf8DecodeFrom(b, i + 2, Append(acc, (b0 - 192) * 64 + (b1 - 128)))
             ELSE IF /\ b0 >= 224 /\ b0 <= 239 /\ Cont(b1) /\ Cont(b2)
                     /\ (b0 = 224 => b1 >= 160)
                     /\ (b0 = 237 => b1 <= 159)
             THEN Utf8DecodeFrom(b, i + 3,
                      Append(acc, (b0 - 224) * 4096 + (b1 - 128) * 64 + (b2 - 128)))
             ELSE IF /\ b0 >= 240 /\ b0 <= 244 /\ Cont(b1) /\ Cont(b2) /\ Cont(b3)
                     /\ (b0 = 240 => b1 >= 144)
                     /\ (b0 = 244 => b1 <= 143)
             THEN Utf8DecodeFrom(b, i + 4,
                      Append(acc, (b0 - 240) * 262144 + (b1 - 128) * 4096
                                  + (b2 - 128) * 64 + (b3 - 128)))
             ELSE [ok |-> FALSE, text |-> <<>>]

(* The decoder over a long input, cut at a character boundary near the    *)
(* middle: the first byte from there on that is no continuation byte.      *)
RECURSIVE utf8_decode(_)
utf8_decode(b) ==
    IF Len(b) <= 16 THEN Utf8DecodeFrom(b, 1, <<>>)
    ELSE LET mid == Len(b) \div 2 + 1
             bounds == {m \in mid .. Len(b) : ~Cont(b[m])}
         IN  IF bounds = {} THEN [ok |-> FALSE, text |-> <<>>]
             ELSE LET m == CHOOSE m \in bounds : \A n \in bounds : m <= n
                      left == utf8_decode(SubSeq(b, 1, m - 1))
                      right == utf8_decode(SubSeq(b, m, Len(b)))
                  IN  IF left.ok /\ right.ok
                      THEN [ok |-> TRUE, text |-> left.text \o right.text]
                      ELSE [ok |-> FALSE, text |-> <<>>]

IsSurrogate(c) == c >= 55296 /\ c <= 57343

Utf8Bytes(c) ==
    IF c < 128 THEN <<c>>
    ELSE IF c < 2048 THEN <<192 + c \div 64, 128 + (c % 64)>>
    ELSE IF c < 65536
    THEN <<224 + c \div 4096, 128 + ((c \div 64) % 64), 128 + (c % 64)>>
    ELSE <<240 + c \div 262144, 128 + ((c \div 4096) % 64), 128 + ((c \div 64) % 64),
           128 + (c % 64)>>


(* [ok, bytes]: a surrogate cannot be encoded (UnicodeEncodeError).        *)
utf8_encode(t) ==
    IF \E i \in 1 .. Len(t) : IsSurrogate(t[i])
    THEN [ok |-> FALSE, bytes |-> <<>>]
    ELSE [ok |-> TRUE, bytes |-> Flatten([i \in 1 .. Len(t) |-> Utf8Bytes(t[i])], 1, Len(t))]

-----------------------------------------------------------------------------
(* json.loads: the scanner of the json module over a text t from index i   *)
(* (1-based).  A scan yields [ok, v, next]; a float keeps its literal      *)
(* (type "float", s the literal).                                          *)
ScanFail == [ok |-> FALSE, v |-> None, next |-> 0]
Scanned(v, next) == [ok |-> TRUE, v |-> v, next |-> next]
At(t, i) == IF i >= 1 /\ i <= Len(t) THEN t[i] ELSE -1
IsDigit(c) == c >= 48 /\ c <= 57
JFloat(lit) == JVal("float", lit, 0, <<>>)

RECURSIVE SkipWs(_, _)
SkipWs(t, i) == IF At(t, i) \in {32, 9, 10, 13} THEN SkipWs(t, i + 1) ELSE i

RECURSIVE SkipDigits(_, _)
SkipDigits(t, i) == IF IsDigit(At(t, i)) THEN SkipDigits(t, i + 1) ELSE i

RECURSIVE ParseInt(_, _, _, _)
ParseInt(t, i, j, acc) ==
    IF i >= j THEN acc ELSE ParseInt(t, i + 1, j, acc * 10 + (t[i] - 48))

HexVal(c) ==
    IF IsDigit(c) THEN c - 48
    ELSE IF c >= 97 /\ c <= 102 THEN c - 87
    ELSE IF c >= 65 /\ c <= 70 THEN c - 55
    ELSE -1

Hex4(t, i) ==
    IF \E d \in 0 .. 3 : HexVal(At(t, i + d)) < 0 THEN -1
    ELSE HexVal(t[i]) * 4096 + HexVal(t[i + 1]) * 256 + HexVal(t[i + 2]) * 16
         + HexVal(t[i + 3])

SimpleEscape(e) ==
    CASE e = 34 -> 34 [] e = 92 -> 92 [] e = 47 -> 47 [] e = 98 -> 8
      [] e = 102 -> 12 [] e = 110 -> 10 [] e = 114 -> 13 [] e = 116 -> 9
      [] OTHER -> -1

(* STRINGCHUNK: the index after the run of plain characters from i, where *)
(* a quote, a backslash, a control character or the end of the text is.    *)
ChunkEnd(t, i) ==
    CHOOSE j \in i .. Len(t) + 1 :
        /\ At(t, j) \in {-1, 34, 92} \/ At(t, j) < 32
        /\ \A k \in i .. j - 1 : At(t, k) \notin {34, 92} /\ At(t, k) >= 32

(* scanstring from i, the index after the opening quote: a chunk of plain *)
(* characters, then its terminator.                                        *)
RECURSIVE ScanString(_, _, _)
ScanString(t, i0, acc0) ==
    LET i == ChunkEnd(t, i0)
        acc == acc0 \o SubSeq(t, i0, i - 1)
        c == At(t, i)
    IN
    IF c = -1 \/ (c < 32 /\ c # -1) THEN ScanFail
    ELSE IF c = 34 THEN Scanned(JStr(acc), i + 1)
    ELSE LET e == At(t, i + 1) IN
         IF e = 117
         THEN LET u == Hex4(t, i + 2) IN
              IF u < 0 THEN ScanFail
              ELSE IF /\ u >= 55296 /\ u <= 56319 /\ i + 12 <= Len(t)
                      /\ At(t, i + 6) = 92 /\ At(t, i + 7) = 117
              THEN LET u2 == Hex4(t, i + 8) IN
                   IF u2 < 0 THEN ScanFail
                   ELSE IF u2 >= 56320 /\ u2 <= 57343
                   THEN ScanString(t, i + 12,
                            Append(acc, 65536 + (u - 55296) * 1024 + (u2 - 56320)))
                   ELSE ScanString(t, i + 6, Append(acc, u))
              ELSE ScanString(t, i + 6, Append(acc, u))
         ELSE IF SimpleEscape(e) >= 0
         THEN ScanString(t, i + 2, Append(acc, SimpleEscape(e)))
         ELSE ScanFail

(* The number at i (NUMBER_RE): an optional '-', then 0 or a run of digits *)
(* not starting with 0, then optionally '.' and digits, then optionally    *)
(* e or E, an optional sign and digits.                                    *)
ScanNumber(t, i) ==
    LET d0 == IF At(t, i) = 45 THEN i + 1 ELSE i
        d1 == IF At(t, d0) = 48 THEN d0 + 1 ELSE SkipDigits(t, d0)
        f1 == IF At(t, d1) = 46 /\ IsDigit(At(t, d1 + 1))
              THEN SkipDigits(t, d1 + 1) ELSE d1
        s1 == IF At(t, f1 + 1) \in {43, 45} THEN f1 + 2 ELSE f1 + 1
        e1 == IF At(t, f1) \in {101, 69} /\ IsDigit(At(t, s1))
              THEN SkipDigits(t, s1) ELSE f1
    IN  IF d1 = d0 THEN ScanFail
        ELSE IF e1 = d1
        THEN Scanned(JNum((IF d0 > i THEN -1 ELSE 1) * ParseInt(t, d0, d1, 0)), d1)
        ELSE Scanned(JFloat(SubSeq(t, i, e1 - 1)), e1)

StartsWith(t, i, w) == \A n \in 1 .. Len(w) : At(t, i + n - 1) = w[n]

(* dict[k] = v: a key already present keeps its place.                     *)
DictSet(entries, k, v) ==
    IF \E n \in 1 .. Len(entries) : entries[n].k = k
    THEN [n \in 1 .. Len(entries) |->
             IF entries[n].k = k THEN Entry(k, v) ELSE entries[n]]
    ELSE Append(entries, Entry(k, v))

RECURSIVE ScanValue(_, _), ScanItems(_, _, _), ScanPairs(_, _, _)
ScanValue(t, i) ==
    LET c == At(t, i) IN
    IF c = 34 THEN ScanString(t, i + 1, <<>>)
    ELSE IF c = 123
    THEN IF At(t, SkipWs(t, i + 1)) = 125
         THEN Scanned(JObj(<<>>), SkipWs(t, i + 1) + 1)
         ELSE ScanPairs(t, SkipWs(t, i + 1), <<>>)
    ELSE IF c = 91
    THEN IF At(t, SkipWs(t, i + 1)) = 93
         THEN Scanned(JArr(<<>>), SkipWs(t, i + 1) + 1)
         ELSE ScanItems(t, SkipWs(t, i + 1), <<>>)
    ELSE IF StartsWith(t, i, <<110, 117, 108, 108>>) THEN Scanned(None, i + 4)
    ELSE IF StartsWith(t, i, <<116, 114, 117, 101>>) THEN Scanned(JBool(TRUE), i + 4)
    ELSE IF StartsWith(t, i, <<102, 97, 108, 115, 101>>) THEN Scanned(JBool(FALSE), i + 5)
    ELSE IF ScanNumber(t, i).ok THEN ScanNumber(t, i)
    ELSE IF StartsWith(t, i, <<78, 97, 78>>) THEN Scanned(JFloat(SubSeq(t, i, i + 2)), i + 3)
    ELSE IF StartsWith(t, i, <<73, 110, 102, 105, 110, 105, 116, 121>>)
    THEN Scanned(JFloat(SubSeq(t, i, i + 7)), i + 8)
    ELSE IF StartsWith(t, i, <<45, 73, 110, 102, 105, 110, 105, 116, 121>>)
    THEN Scanned(JFloat(SubSeq(t, i, i + 8)), i + 9)
    ELSE ScanFail
(* A list's items from i, the index of an item.                            *)
ScanItems(t, i, items) ==
    LET r == ScanValue(t, i) IN
    IF ~r.ok THEN ScanFail
    ELSE LET j == SkipWs(t, r.next) IN
         IF At(t, j) = 93 THEN Scanned(JArr(Append(items, r.v)), j + 1)
         ELSE IF At(t, j) = 44
         THEN ScanItems(t, SkipWs(t, j + 1), Append(items, r.v))
         ELSE ScanFail
(* A dict's pairs from i, the index of a key's opening quote.              *)
ScanPairs(t, i, entries) ==
    IF At(t, i) # 34 THEN ScanFail
    ELSE LET k == ScanString(t, i + 1, <<>>) IN
         IF ~k.ok THEN ScanFail
         ELSE LET c == SkipWs(t, k.next) IN
              IF At(t, c) # 58 THEN ScanFail
              ELSE LET r == ScanValue(t, SkipWs(t, c + 1)) IN
                   IF ~r.ok THEN ScanFail
                   ELSE LET j == SkipWs(t, r.next)
                            es == DictSet(entries, k.v.s, r.v)
                        IN  IF At(t, j) = 125 THEN Scanned(JObj(es), j + 1)
                            ELSE IF At(t, j) = 44
                            THEN ScanPairs(t, SkipWs(t, j + 1), es)
                            ELSE ScanFail

(* json.loads(text): [ok, v]                                               *)
json_loads(t) ==
    LET r == ScanValue(t, SkipWs(t, 1)) IN
    IF r.ok /\ SkipWs(t, r.next) = Len(t) + 1
    THEN [ok |-> TRUE, v |-> r.v]
    ELSE [ok |-> FALSE, v |-> None]

-----------------------------------------------------------------------------
(* json.dumps(v, ensure_ascii=False, indent=2)                             *)
RECURSIVE IntDigits(_)
IntDigits(n) == IF n < 10 THEN <<48 + n>> ELSE Append(IntDigits(n \div 10), 48 + (n % 10))
IntText(n) == IF n < 0 THEN <<45>> \o IntDigits(0 - n) ELSE IntDigits(n)

HexDigit(d) == IF d < 10 THEN 48 + d ELSE 87 + d

EscapeChar(c) ==
    CASE c = 34 -> <<92, 34>> [] c = 92 -> <<92, 92>> [] c = 10 -> <<92, 110>>
      [] c = 13 -> <<92, 114>> [] c = 9 -> <<92, 116>> [] c = 8 -> <<92, 98>>
      [] c = 12 -> <<92, 102>>
      [] OTHER -> IF c < 32 THEN <<92, 117, 48, 48, HexDigit(c \div 16), HexDigit(c % 16)>>
                  ELSE <<c>>

Quoted(s) == <<34>> \o Flatten([i \in 1 .. Len(s) |-> EscapeChar(s[i])], 1, Len(s)) \o <<34>>

Indent == 2
NewlineIndent(level) == <<10>> \o Rep(32, Indent * level)

RECURSIVE Dumps(_, _), DumpItems(_, _, _, _)
Dumps(v, level) ==
    CASE v.t = "null" -> <<110, 117, 108, 108>>
      [] v.t = "bool" -> IF v.n = 1 THEN <<116, 114, 117, 101>>
                         ELSE <<102, 97, 108, 115, 101>>
      [] v.t = "num" -> IntText(v.n)
      [] v.t = "float" -> v.s
      [] v.t = "str" -> Quoted(v.s)
      [] v.t = "list" -> IF v.e = <<>> THEN <<91, 93>>
                         ELSE <<91>> \o DumpItems(v.e, 1, level + 1, FALSE)
                              \o NewlineIndent(level) \o <<93>>
      [] OTHER -> IF v.e = <<>> THEN <<123, 125>>
                  ELSE <<123>> \o DumpItems(v.e, 1, level + 1, TRUE)
                       \o NewlineIndent(level) \o <<125>>
DumpItems(e, i, level, keyed) ==
    IF i > Len(e) THEN <<>>
    ELSE NewlineIndent(level)
         \o (IF keyed THEN Quoted(e[i].k) \o <<58, 32>> ELSE <<>>)
         \o Dumps(e[i].v, level)
         \o (IF i < Len(e) THEN <<44>> ELSE <<>>)
         \o DumpItems(e, i + 1, level, keyed)

json_dumps(v) == Dumps(v, 0)

-----------------------------------------------------------------------------
(* The cryptography library's two primitives, which the source treats as   *)
(* opaque: hashlib.sha256(m).digest(), a deterministic 32-byte digest, and *)
(* AES-256 in counter mode, the data XORed with a keystream that depends   *)
(* on the key and on the successive 16-byte counter blocks.  The mixing    *)
(* functions stand for SHA-256 and for the AES block encryption.           *)
DigestLen == 32
BlockLen == 16

RECURSIVE DigestByte(_, _, _, _)
DigestByte(m, j, i, h) ==
    IF j > Len(m) THEN h
    ELSE DigestByte(m, j + 1, i, (h * 31 + m[j] + i * j) % 256)

sha256(m) == [i \in 1 .. DigestLen |-> DigestByte(m, 1, i, (i * 29 + Len(m)) % 256)]

aes_block(key, block) ==
    [j \in 1 .. BlockLen |->
        (key[j] * 7 + key[j + BlockLen] * 13 + block[j] * 5 + j) % 256]

RECURSIVE Xor(_, _)
Xor(a, b) ==
    IF a = 0 THEN b
    ELSE IF b = 0 THEN a
    ELSE 2 * Xor(a \div 2, b \div 2) + ((a + b) % 2)

(* int.from_bytes(iv, "big") as the 16-byte initial counter block, and the *)
(* counter block n blocks later (a single big-endian integer).             *)
InitialCounter(iv) == Rep(0, BlockLen - Len(iv)) \o iv

RECURSIVE AddBE(_, _, _)
AddBE(block, pos, carry) ==
    IF pos = 0 \/ carry = 0 THEN block
    ELSE AddBE([block EXCEPT ![pos] = (block[pos] + carry) % 256], pos - 1,
               (block[pos] + carry) \div 256)

(* AES.new(key, AES.MODE_CTR, nonce=b"", initial_value=...).decrypt(ct);   *)
(* encryption is the same operation.                                       *)
aes_ctr(key, iv, ct) ==
    [i \in 1 .. Len(ct) |->
        Xor(ct[i], aes_block(key, AddBE(InitialCounter(iv), BlockLen, (i - 1) \div BlockLen))
                       [((i - 1) % BlockLen) + 1])]

-----------------------------------------------------------------------------
(* decrypt_blob                                                            *)
MinPayload == 17

(* len(raw) < 16 in the place of len(raw) < 17.                            *)
PayloadTooShortOffByOne(raw) == Len(raw) < MinPayload - 1

PayloadTooShort(raw) == Len(raw) < MinPayload

(* decrypt_blob's outcome with its locals; aes holds the arguments of the  *)
(* cipher's call, if it was called.                                        *)
Outcome(ok, err, value, key_str, enc_b64, key, raw, aes, pt) ==
    [ok |-> ok, err |-> err, value |-> value, key_str |-> key_str,
     enc_b64 |-> enc_b64, key |-> key, raw |-> raw, aes |-> aes, pt |-> pt]

(* Lines 106 to 121, for the pair split_blob_guess returned.  Each step    *)
(* takes the outcome so far and the value the line before it computed.     *)
(* json.loads(pt.decode("utf-8")), line 121                                *)
DecryptJson(o, js) ==
    IF ~js.ok THEN [o EXCEPT !.err = "JSONDecodeError"]
    ELSE [o EXCEPT !.ok = TRUE, !.err = "none", !.value = js.v]

(* pt.decode("utf-8"), line 120                                            *)
DecryptText(o, text) ==
    IF ~text.ok THEN [o EXCEPT !.err = "UnicodeDecodeError"]
    ELSE DecryptJson(o, json_loads(text.text))

(* AES.new(key, AES.MODE_CTR, nonce=b"", initial_value=iv).decrypt(ct)     *)
DecryptCipher(o, iv, ct) ==
    DecryptText([o EXCEPT !.aes = <<[key |-> o.key, iv |-> iv, ct |-> ct]>>,
                          !.pt = aes_ctr(o.key, iv, ct)],
                utf8_decode(aes_ctr(o.key, iv, ct)))

(* raw = b64decode_loose(enc_b64); the length check; iv and ct             *)
DecryptPayload(o, d) ==
    IF ~d.ok THEN [o EXCEPT !.err = d.err]
    ELSE IF PayloadTooShort(d.bytes)
    THEN [o EXCEPT !.raw = d.bytes, !.err = "ValueError: Decoded payload too short"]
    ELSE DecryptCipher([o EXCEPT !.raw = d.bytes],
                       SubSeq(d.bytes, 1, IF Len(d.bytes) < BlockLen THEN Len(d.bytes)
                                          ELSE BlockLen),
                       SubSeq(d.bytes, BlockLen + 1, Len(d.bytes)))

(* key = hashlib.sha256(key_str.encode("utf-8")).digest()                  *)
DecryptKey(o, kb) ==
    IF ~kb.ok THEN [o EXCEPT !.err = "UnicodeEncodeError"]
    ELSE DecryptPayload([o EXCEPT !.key = sha256(kb.bytes)], b64decode_loose(o.enc_b64))

DecryptWith(key_str, enc_b64) ==
    DecryptKey(Outcome(FALSE, "none", None, key_str, enc_b64, <<>>, <<>>, <<>>, <<>>),
               utf8_encode(key_str))

SplitFailed ==
    Outcome(FALSE, "ValueError: Could not split blob", None, <<>>, <<>>, <<>>, <<>>, <<>>, <<>>)

(* A decrypt_blob that goes on to the next candidate when decryption of    *)
(* the one that decoded fails.                                             *)
RECURSIVE RetryFrom(_, _)
RetryFrom(candidates, i) ==
    IF i > Len(candidates) THEN SplitFailed
    ELSE IF b64decode_loose(candidates[i].enc_b64).ok
            /\ DecryptWith(candidates[i].key_str, candidates[i].enc_b64).ok
    THEN DecryptWith(candidates[i].key_str, candidates[i].enc_b64)
    ELSE RetryFrom(candidates, i + 1)
decrypt_blob_Retrying(b) == RetryFrom(Candidates(Trim(b)), 1)

(* key_str, enc_b64 = split_blob_guess(blob), line 104                     *)
DecryptSplit(sp) ==
    IF ~sp.ok THEN SplitFailed ELSE DecryptWith(sp.key_str, sp.enc_b64)

decrypt_blob(b) == DecryptSplit(split_blob_guess(b))

-----------------------------------------------------------------------------
(* The inverse construction: encrypt the plaintext under sha256 of the     *)
(* key material with a chosen IV, base64-encode IV and ciphertext, append  *)
(* the key material.                                                       *)
EncodedCiphertext(key_material, iv, plaintext) ==
    b64encode(iv \o aes_ctr(sha256(utf8_encode(key_material).bytes), iv, plaintext))

ConstructBlob(key_material, iv, plaintext) ==
    EncodedCiphertext(key_material, iv, plaintext) \o key_material

-----------------------------------------------------------------------------
(* main.  A run's scenario is kept in arg: how the input file was made.    *)
(* data, blob and dec hold nothing until their stage has run, then         *)
(* <<value>>; exit is "running" until the process ends.                    *)
FrontendKeyLen == 21

KeyMaterials == {Rep(InputChar.k, FrontendKeyLen)}
                \cup {[Rep(InputChar.k, FrontendKeyLen) EXCEPT ![p] = chEq] :
                        p \in 1 .. FrontendKeyLen}
IVs == {Rep(0, BlockLen), [i \in 1 .. BlockLen |-> (i * 37) % 256]}

(* 1   {"x":1}   "\ud800"   "e-acute"   [   an invalid byte   nothing      *)
Plaintexts == {<<49>>, <<123, 34, 120, 34, 58, 49, 125>>,
               <<34, 92, 117, 100, 56, 48, 48, 34>>, <<34, 195, 169, 34>>,
               <<91>>, <<255>>, <<>>}

(* Blobs that are not constructed: empty, too short to split, a run of 'A' *)
(* that splits and decodes, and a constructed blob in quotes.              *)
LiteralBlobs == {<<>>, Rep(InputChar.A, 4), Rep(InputChar.A, 45),
                 <<chDQuote>> \o ConstructBlob(Rep(InputChar.k, FrontendKeyLen),
                                               Rep(0, BlockLen), <<49>>)
                 \o <<chDQuote>>}

(* Where the blob is put: at pageProps.a, at props.pageProps.a, deep in    *)
(* lists and dicts, under another name, or a number in its place.          *)
Payload(shape, b) ==
    CASE shape = "root" -> JObj(<<Entry(kPageProps, JObj(<<Entry(kA, JStr(b))>>))>>)
      [] shape = "props" ->
            JObj(<<Entry(kProps, JObj(<<Entry(kPageProps, JObj(<<Entry(kA, JStr(b))>>))>>))>>)
      [] shape = "deep" ->
            JArr(<<JNum(0), JObj(<<Entry(kX,
                JObj(<<Entry(kPageProps, JObj(<<Entry(kA, JStr(b))>>))>>))>>)>>)
      [] shape = "elsewhere" -> JObj(<<Entry(kPageProps, JObj(<<Entry(kX, JStr(b))>>))>>)
      [] OTHER -> JObj(<<Entry(kPageProps, JObj(<<Entry(kA, JNum(Len(b)))>>))>>)

Scenario(kind, shape, key_material, iv, plaintext, literal) ==
    [kind |-> kind, shape |-> shape, key_material |-> key_material, iv |-> iv,
     plaintext |-> plaintext, literal |-> literal]

Scenarios ==
    {Scenario("constructed", sh, k, iv, pt, <<>>) :
        sh \in {"root", "props", "deep"}, k \in KeyMaterials, iv \in IVs, pt \in Plaintexts}
    \cup {Scenario("literal", sh, <<>>, <<>>, <<>>, b) :
            sh \in {"root", "props", "deep", "elsewhere", "number"}, b \in LiteralBlobs}
    \cup {Scenario(kind, "root", <<>>, <<>>, <<>>, <<>>) :
            kind \in {"missing", "not utf-8", "not json"}}

BlobOf(sc) ==
    IF sc.kind = "constructed" THEN ConstructBlob(sc.key_material, sc.iv, sc.plaintext)
    ELSE sc.literal

(* The input file: [exists, content], content being bytes.                 *)
FileOf(sc) ==
    CASE sc.kind = "missing" -> [exists |-> FALSE, content |-> <<>>]
      [] sc.kind = "not utf-8" -> [exists |-> TRUE, content |-> <<123, 255, 125>>]
      [] sc.kind = "not json" -> [exists |-> TRUE, content |-> <<123, 34, 97, 34>>]
      [] OTHER -> [exists |-> TRUE,
                   content |-> utf8_encode(json_dumps(Payload(sc.shape, BlobOf(sc)))).bytes]

(* args.out: <<>> when -o is not given, else <<path>>.                     *)
OutArgs == {<<>>, <<<<>>>>, <<<<111>>>>}
OldContent == <<111, 108, 100>>
LocateError == "SystemExit: Could not find pageProps.a in the provided JSON."

Init == /\ fn = "main" /\ ret = <<>>
        /\ arg \in Scenarios
        /\ pc = "load"
        /\ argv \in [json_file : {<<109>>}, out : OutArgs]
        /\ file = FileOf(arg)
        /\ outfile \in [content : {OldContent}, opened : {FALSE}, writable : BOOLEAN]
        /\ (argv.out \in {<<>>, <<<<>>>>} => outfile.writable)
        /\ data = <<>> /\ blob = <<>> /\ dec = <<>>
        /\ stdout = <<>>
        /\ exit = "running"

Exit(e) == pc' = "exit" /\ exit' = e

(* with open(args.json_file, "r", encoding="utf-8") as f: json.load(f)     *)
LoadedJson(j) ==
    IF ~j.ok THEN [ok |-> FALSE, err |-> "JSONDecodeError", v |-> None]
    ELSE [ok |-> TRUE, err |-> "none", v |-> j.v]

LoadedText(t) ==
    IF ~t.ok THEN [ok |-> FALSE, err |-> "UnicodeDecodeError", v |-> None]
    ELSE LoadedJson(json_loads(t.text))

Loaded(f) ==
    IF ~f.exists THEN [ok |-> FALSE, err |-> "FileNotFoundError", v |-> None]
    ELSE LoadedText(utf8_decode(f.content))

Load == /\ pc = "load"
        /\ \E r \in {Loaded(file)} :
              IF r.ok
              THEN data' = <<r.v>> /\ pc' = "locate" /\ UNCHANGED exit
              ELSE Exit(r.err) /\ UNCHANGED data
        /\ UNCHANGED <<fn, arg, ret, argv, file, blob, dec, outfile, stdout>>

(* "not blob": None and the empty string.                                  *)
NotBlob(b) == b = None \/ (IsStr(b) /\ b.s = <<>>)

Locate == /\ pc = "locate"
          /\ blob' = <<find_pageprops_a(data[1])>>
          /\ IF NotBlob(blob'[1])
             THEN Exit(LocateError)
             ELSE pc' = "decrypt" /\ UNCHANGED exit
          /\ UNCHANGED <<fn, arg, ret, argv, file, data, dec, outfile, stdout>>

Decrypt == /\ pc = "decrypt"
           /\ dec' = <<decrypt_blob(blob[1].s)>>
           /\ IF dec'[1].ok
              THEN pc' = "emit" /\ UNCHANGED exit
              ELSE Exit(dec'[1].err)
           /\ UNCHANGED <<fn, arg, ret, argv, file, data, blob, outfile, stdout>>

(* "OK: wrote decrypted JSON to " + args.out                               *)
OkLine(path) == <<79, 75, 58, 32, 119, 114, 111, 116, 101, 32, 100, 101, 99, 114, 121,
                  112, 116, 101, 100, 32, 74, 83, 79, 78, 32, 116, 111, 32>> \o path

(* Lines 179 to 185.  open(args.out, "w") truncates the file before        *)
(* f.write encodes the text; print encodes it before anything is written.  *)
Emit == /\ pc = "emit"
        /\ LET out_text == json_dumps(dec[1].value)
               encoded == utf8_encode(out_text)
           IN  IF argv.out # <<>> /\ argv.out[1] # <<>>
               THEN IF ~outfile.writable
                    THEN Exit("OSError") /\ UNCHANGED <<outfile, stdout>>
                    ELSE IF ~encoded.ok
                    THEN /\ outfile' = [outfile EXCEPT !.opened = TRUE, !.content = <<>>]
                         /\ Exit("UnicodeEncodeError")
                         /\ UNCHANGED stdout
                    ELSE /\ outfile' = [outfile EXCEPT !.opened = TRUE,
                                                       !.content = encoded.bytes]
                         /\ stdout' = Append(stdout, OkLine(argv.out[1]))
                         /\ Exit("ok")
               ELSE IF ~encoded.ok
                    THEN Exit("UnicodeEncodeError") /\ UNCHANGED <<outfile, stdout>>
                    ELSE /\ stdout' = Append(stdout, out_text)
                         /\ Exit("ok")
                         /\ UNCHANGED outfile
        /\ UNCHANGED <<fn, arg, ret, argv, file, data, blob, dec>>

Next == Load \/ Locate \/ Decrypt \/ Emit

Spec == Init /\ [][Next]_vars

-----------------------------------------------------------------------------
(* Properties of runs of main.                                             *)
Constructed == arg.kind = "constructed" /\ Len(arg.plaintext) >= 1
Finished == pc \in {"emit", "exit"}
TooShortError == "ValueError: Decoded payload too short"

(* C1: when the file holds, at a pageProps.a location, the blob built from *)
(* a 21-character key_material (with or without '=') and the padded base64 *)
(* of a 16-byte IV and at least one ciphertext byte, the run locates that  *)
(* blob, splits it into exactly (key_material, encoded_ciphertext) and     *)
(* decrypts to the original plaintext bytes.                               *)
C1_RoundTrip ==
    (Constructed /\ Finished) =>
        /\ blob = <<JStr(BlobOf(arg))>>
        /\ dec # <<>>
        /\ dec[1].key_str = arg.key_material
        /\ dec[1].enc_b64 = EncodedCiphertext(arg.key_material, arg.iv, arg.plaintext)
        /\ dec[1].pt = arg.plaintext

(* C4: the stages run in the order load, locate, decrypt, emit; anything   *)
(* is written, or the -o file opened or truncated, only in a run in which  *)
(* every stage succeeded; a failing run leaves stdout and the file alone.  *)
C4_OutputOnlyOnSuccess ==
    /\ (dec # <<>> => blob # <<>>) /\ (blob # <<>> => data # <<>>)
    /\ (stdout # <<>> \/ outfile.opened \/ outfile.content # OldContent) =>
            /\ exit = "ok"
            /\ data # <<>> /\ blob # <<>> /\ dec # <<>> /\ dec[1].ok
    /\ (exit \notin {"running", "ok"}) =>
            stdout = <<>> /\ ~outfile.opened /\ outfile.content = OldContent

(* C5: once the locator has run, the run has ended with the locate-error   *)
(* exactly when the locator found no string; a string of any length, the   *)
(* empty one included, takes the run on to decryption.                     *)
C5_LocateErrorIffNoString ==
    blob # <<>> => ((exit = LocateError) <=> ~IsStr(blob[1]))

(* The first candidate, in the splitter's order, whose ciphertext half     *)
(* decodes; 0 when none does.                                              *)
FirstDecoding(candidates) ==
    IF \E i \in 1 .. Len(candidates) : Decodes(candidates[i])
    THEN CHOOSE i \in 1 .. Len(candidates) :
            Decodes(candidates[i]) /\ \A j \in 1 .. (i - 1) : ~Decodes(candidates[j])
    ELSE 0

(* C9: decrypt_blob's outcome is that of key derivation and decryption for *)
(* the first candidate whose ciphertext half decodes, and for no other: if *)
(* a later step fails for it the invocation fails, whatever the later      *)
(* candidates would have given.                                            *)
C9_OneCandidatePerInvocation ==
    dec # <<>> =>
        LET candidates == Candidates(Trim(blob[1].s))
            i == FirstDecoding(candidates)
        IN  IF i = 0 THEN dec[1] = SplitFailed
            ELSE /\ dec[1].key_str = candidates[i].key_str
                 /\ dec[1].enc_b64 = candidates[i].enc_b64
                 /\ dec[1] = DecryptWith(candidates[i].key_str, candidates[i].enc_b64)

(* The used candidate decoded to 17 bytes or more and then failed, while a *)
(* later candidate would have decrypted to JSON.                           *)
C9_Witness ==
    /\ dec # <<>> /\ ~dec[1].ok
    /\ dec[1].err \in {"UnicodeDecodeError", "JSONDecodeError"}
    /\ LET candidates == Candidates(Trim(blob[1].s)) IN
       \E j \in (FirstDecoding(candidates) + 1) .. Len(candidates) :
            DecryptWith(candidates[j].key_str, candidates[j].enc_b64).ok

=============================================================================
